---- MODULE Spec2Model ----
(***************************************************************************)
(* Model of rename-project.js (src/unnamed/part_001): the project rename   *)
(* script of the angular-starter repository.  Files hold text (sequences   *)
(* of one-character strings); JSON text is produced and consumed by        *)
(* Stringify and Parse, and the regular-expression substitution of         *)
(* updateAngularJson acts on that text.                                    *)
(***************************************************************************)
EXTENDS Naturals, Integers, Sequences, FiniteSets, TLC

(***************************************************************************)
(* Characters and text                                                     *)
(***************************************************************************)
Q  == "\""
BS == "\\"
NL == "\n"
SP == " "

Range(s) == {s[i] : i \in 1..Len(s)}

\* s.substring(i - 1): the text from (1-based) position i to the end
From(s, i) == IF i > Len(s) THEN <<>> ELSE SubSeq(s, i, Len(s))

\* s.startsWith(p) at (1-based) position i, compared literally
StartsWithAt(s, i, p) ==
  /\ i + Len(p) - 1 <= Len(s)
  /\ \A j \in 1..Len(p) : s[i + j - 1] = p[j]

Spaces(n) == [i \in 1..n |-> SP]

\* F(v) with v evaluated once: JavaScript evaluates `const x = e` once, and
\* the body then reads the value
With(v, F(_)) == CHOOSE r \in {F(x) : x \in {v}} : TRUE

\* the least index in lo..hi that satisfies P, hi + 1 when there is none
FirstIndex(lo, hi, P(_)) ==
  IF lo > hi THEN lo
  ELSE CHOOSE j \in lo..(hi + 1) : /\ j = hi + 1 \/ P(j)
                                   /\ \A k \in lo..(j - 1) : ~P(k)

(***************************************************************************)
(* JSON values.  A value is a string, an object (an ordered list of        *)
(* key/value pairs, as a JavaScript object keeps its own string keys in    *)
(* insertion order) or a literal (null, true, false, a run of digits).     *)
(* Arrays are not modelled.                                                *)
(***************************************************************************)
Str(s) == [t |-> "s", s |-> s, m |-> <<>>]
Obj(m) == [t |-> "o", s |-> <<>>, m |-> m]
Lit(s) == [t |-> "l", s |-> s, m |-> <<>>]
KV(k, v) == [k |-> k, v |-> v]

\* the value `undefined` of a property that is absent
Undefined == [t |-> "u", s |-> <<>>, m |-> <<>>]

LitNull  == <<"n", "u", "l", "l">>
LitTrue  == <<"t", "r", "u", "e">>
LitFalse == <<"f", "a", "l", "s", "e">>
Digits   == {"0", "1", "2", "3", "4", "5", "6", "7", "8", "9"}

\* JavaScript truthiness of a value, as used by `!x` and `if (x)`
Truthy(v) ==
  CASE v.t = "u" -> FALSE
    [] v.t = "s" -> v.s # <<>>
    [] v.t = "o" -> TRUE
    [] OTHER     -> v.s \notin {LitNull, LitFalse, <<"0">>}

HasKey(m, k) == \E i \in 1..Len(m) : m[i].k = k
IndexOfKey(m, k) == CHOOSE i \in 1..Len(m) : m[i].k = k

\* obj[k]: own property k of an object, undefined otherwise.  Properties
\* inherited from Object.prototype are not modelled; no key the model looks
\* up names one.
Get(v, k) ==
  IF v.t = "o" /\ HasKey(v.m, k) THEN v.m[IndexOfKey(v.m, k)].v ELSE Undefined

\* obj[k] = x: an existing key keeps its position, a new key is appended
SetProp(m, k, x) ==
  IF HasKey(m, k)
  THEN With(IndexOfKey(m, k),
            LAMBDA at : SubSeq(m, 1, at - 1) \o <<KV(k, x)>> \o SubSeq(m, at + 1, Len(m)))
  ELSE Append(m, KV(k, x))

\* delete obj[k]
DeleteProp(m, k) ==
  IF HasKey(m, k)
  THEN With(IndexOfKey(m, k),
            LAMBDA at : SubSeq(m, 1, at - 1) \o SubSeq(m, at + 1, Len(m)))
  ELSE m

(***************************************************************************)
(* JSON.stringify(value, null, 2)                                          *)
(***************************************************************************)
RECURSIVE EscapeFrom(_, _)
EscapeFrom(s, i) ==
  With(FirstIndex(i, Len(s), LAMBDA k : s[k] \in {Q, BS, NL}),
       LAMBDA j :
         IF j > Len(s) THEN From(s, i)
         ELSE SubSeq(s, i, j - 1)
                \o (CASE s[j] = Q  -> <<BS, Q>>
                      [] s[j] = BS -> <<BS, BS>>
                      [] OTHER     -> <<BS, "n">>)
                \o EscapeFrom(s, j + 1))

Escape(s) == EscapeFrom(s, 1)

Quote(s) == <<Q>> \o Escape(s) \o <<Q>>

RECURSIVE StringifyAt(_, _)
RECURSIVE StringifyMembers(_, _, _)
StringifyMembers(m, i, depth) ==
  Spaces(2 * (depth + 1)) \o Quote(m[i].k) \o <<":", SP>> \o StringifyAt(m[i].v, depth + 1)
    \o (IF i = Len(m) THEN <<NL>> \o Spaces(2 * depth)
                      ELSE <<",", NL>> \o StringifyMembers(m, i + 1, depth))

StringifyAt(v, depth) ==
  CASE v.t = "s" -> Quote(v.s)
    [] v.t = "l" -> v.s
    [] OTHER     -> IF v.m = <<>> THEN <<"{", "}">>
                    ELSE <<"{", NL>> \o StringifyMembers(v.m, 1, depth) \o <<"}">>

Stringify(v) == With(v, LAMBDA x : StringifyAt(x, 0))

(***************************************************************************)
(* JSON.parse(text).  A result is [ok, v, i]: whether the text parsed, the *)
(* value, and the position after it.  ok = FALSE is a SyntaxError.         *)
(***************************************************************************)
ParseFail == [ok |-> FALSE, v |-> Undefined, i |-> 0]
ParseOk(v, i) == [ok |-> TRUE, v |-> v, i |-> i]

IsWs(c) == c \in {SP, NL, "\t", "\r"}

SkipWs(t, i) == FirstIndex(i, Len(t), LAMBDA k : ~IsWs(t[k]))

\* the characters of a string token from position i, after those in acc
RECURSIVE ParseChars(_, _, _)
ParseChars(t, i, acc) ==
  With(FirstIndex(i, Len(t), LAMBDA k : t[k] \in {Q, BS, NL}),
       LAMBDA j :
         IF j > Len(t) THEN ParseFail
         ELSE IF t[j] = Q THEN ParseOk(Str(acc \o SubSeq(t, i, j - 1)), j + 1)
         ELSE IF t[j] = NL THEN ParseFail
         ELSE IF j + 1 > Len(t) THEN ParseFail
         ELSE IF t[j + 1] \in {Q, BS, "/"}
              THEN With(acc \o SubSeq(t, i, j - 1) \o <<t[j + 1]>>,
                        LAMBDA acc2 : ParseChars(t, j + 2, acc2))
         ELSE IF t[j + 1] = "n"
              THEN With(acc \o SubSeq(t, i, j - 1) \o <<NL>>,
                        LAMBDA acc2 : ParseChars(t, j + 2, acc2))
         ELSE ParseFail)

LitEnd(t, i) == FirstIndex(i, Len(t), LAMBDA k : t[k] \in {SP, NL, ",", "}", "{", ":", Q})

IsLiteral(s) ==
  \/ s \in {LitNull, LitTrue, LitFalse}
  \/ s # <<>> /\ Range(s) \subseteq Digits /\ (Len(s) = 1 \/ s[1] # "0")

RECURSIVE ParseValue(_, _)
RECURSIVE ParseMembers(_, _, _)
RECURSIVE ParseMemberValue(_, _, _, _)
\* the members of an object after its "{" or after a ","
ParseMembers(t, i, acc) ==
  With(SkipWs(t, i),
       LAMBDA j :
         IF j > Len(t) \/ t[j] # Q THEN ParseFail
         ELSE With(ParseChars(t, j + 1, <<>>),
                   LAMBDA key :
                     IF ~key.ok THEN ParseFail
                     ELSE With(SkipWs(t, key.i),
                               LAMBDA c :
                                 IF c > Len(t) \/ t[c] # ":" THEN ParseFail
                                 ELSE ParseMemberValue(t, c + 1, acc, key.v.s))))

\* the value of the member keyed key, then the rest of the object
ParseMemberValue(t, i, acc, key) ==
  With(ParseValue(t, i),
       LAMBDA val :
         IF ~val.ok THEN ParseFail
         ELSE With(SkipWs(t, val.i),
                   LAMBDA e :
                     IF e > Len(t) THEN ParseFail
                     ELSE IF t[e] = ","
                          THEN With(SetProp(acc, key, val.v),
                                    LAMBDA acc2 : ParseMembers(t, e + 1, acc2))
                     ELSE IF t[e] = "}" THEN ParseOk(Obj(SetProp(acc, key, val.v)), e + 1)
                     ELSE ParseFail))

ParseValue(t, i) ==
  With(SkipWs(t, i),
       LAMBDA j :
         IF j > Len(t) THEN ParseFail
         ELSE IF t[j] = Q THEN ParseChars(t, j + 1, <<>>)
         ELSE IF t[j] = "{"
              THEN With(SkipWs(t, j + 1),
                        LAMBDA k :
                          IF k <= Len(t) /\ t[k] = "}" THEN ParseOk(Obj(<<>>), k + 1)
                          ELSE ParseMembers(t, j + 1, <<>>))
         ELSE With(LitEnd(t, j),
                   LAMBDA e :
                     IF e > j /\ IsLiteral(SubSeq(t, j, e - 1))
                     THEN ParseOk(Lit(SubSeq(t, j, e - 1)), e)
                     ELSE ParseFail))

Parse(text) ==
  With(text,
       LAMBDA t : With(ParseValue(t, 1),
                       LAMBDA r : IF r.ok /\ SkipWs(t, r.i) > Len(t) THEN r ELSE ParseFail))

(***************************************************************************)
(* Regular expressions.  A compiled pattern is a sequence of atoms, each   *)
(* matching one character: a literal, or `.` (any character but a line     *)
(* terminator).  A backslash in the source makes the next character a      *)
(* literal.  Quantifiers, groups and classes in a pattern source are not   *)
(* modelled; the names the model feeds in contain none.                    *)
(***************************************************************************)
Atom(any, c) == [any |-> any, c |-> c]

RECURSIVE RegExp(_)
RegExp(src) ==
  IF src = <<>> THEN <<>>
  ELSE IF Head(src) = BS /\ Len(src) >= 2 THEN <<Atom(FALSE, src[2])>> \o RegExp(From(src, 3))
  ELSE IF Head(src) = "." THEN <<Atom(TRUE, ".")>> \o RegExp(Tail(src))
  ELSE <<Atom(FALSE, Head(src))>> \o RegExp(Tail(src))

AtomMatches(a, c) == IF a.any THEN c # NL ELSE a.c = c

MatchesAt(t, i, pat) ==
  /\ i + Len(pat) - 1 <= Len(t)
  /\ \A j \in 1..Len(pat) : AtomMatches(pat[j], t[i + j - 1])

\* the matches of a pattern with the g flag are found left to right, the
\* scan resuming after each match
RECURSIVE ReplaceFrom(_, _, _, _)
ReplaceFrom(t, i, pat, rep) ==
  With(FirstIndex(i, Len(t), LAMBDA k : MatchesAt(t, k, pat)),
       LAMBDA j :
         IF j > Len(t) THEN From(t, i)
         ELSE SubSeq(t, i, j - 1) \o rep \o ReplaceFrom(t, j + Len(pat), pat, rep))

\* text.replace(new RegExp(source, 'g'), replacement)
Replace(text, source, replacement) ==
  With(<<text, RegExp(source), replacement>>,
       LAMBDA a : ReplaceFrom(a[1], 1, a[2], a[3]))

RegExpSpecial == {".", "*", "+", "?", "^", "$", "{", "}", "(", ")", "|", "[", "]", BS}

RECURSIVE escapeRegExp(_)
escapeRegExp(s) ==
  IF s = <<>> THEN <<>>
  ELSE (IF Head(s) \in RegExpSpecial THEN <<BS, Head(s)>> ELSE <<Head(s)>>) \o escapeRegExp(Tail(s))

(***************************************************************************)
(* validateProjectName                                                     *)
(***************************************************************************)
LowerLetters == {"a", "b", "c", "d", "e", "f", "g", "h", "i", "j", "k", "l", "m",
                 "n", "o", "p", "q", "r", "s", "t", "u", "v", "w", "x", "y", "z"}
UpperLetters == <<"A", "B", "C", "D", "E", "F", "G", "H", "I", "J", "K", "L", "M",
                  "N", "O", "P", "Q", "R", "S", "T", "U", "V", "W", "X", "Y", "Z">>
LowerOfUpper == <<"a", "b", "c", "d", "e", "f", "g", "h", "i", "j", "k", "l", "m",
                  "n", "o", "p", "q", "r", "s", "t", "u", "v", "w", "x", "y", "z">>

\* s.trim()
Trim(s) ==
  With({i \in 1..Len(s) : ~IsWs(s[i])},
       LAMBDA NonWs :
         IF NonWs = {} THEN <<>>
         ELSE SubSeq(s, CHOOSE i \in NonWs : \A j \in NonWs : i <= j,
                        CHOOSE i \in NonWs : \A j \in NonWs : i >= j))

\* the position after the longest run of [a-z0-9] that starts at i
AlnumRunEnd(s, i) == FirstIndex(i, Len(s), LAMBDA k : s[k] \notin LowerLetters \cup Digits)

\* (-[a-z0-9]+)*$ from position i
RECURSIVE HyphenGroups(_, _)
HyphenGroups(s, i) ==
  IF i > Len(s) THEN TRUE
  ELSE /\ s[i] = "-"
       /\ With(AlnumRunEnd(s, i + 1), LAMBDA e : e > i + 1 /\ HyphenGroups(s, e))

\* PROJECT_NAME_PATTERN.test(s): ^[a-z][a-z0-9]*(-[a-z0-9]+)*$
PROJECT_NAME_PATTERN(s) ==
  /\ s # <<>>
  /\ s[1] \in LowerLetters
  /\ With(AlnumRunEnd(s, 2), LAMBDA e : HyphenGroups(s, e))

\* the two error messages; the second quotes the name and goes on with the
\* rules, which are kept as one piece of text
ErrorEmpty == <<"Project name cannot be empty">>
ErrorInvalid(name) ==
  <<"Invalid project name: ", Q>> \o name \o <<Q, NL, "   Project names must: ...">>

\* a validateProjectName without the test of name.trim()
validateProjectName_NoTrim(name) ==
  IF name = <<>> THEN [valid |-> FALSE, error |-> ErrorEmpty]
  ELSE IF ~PROJECT_NAME_PATTERN(name) THEN [valid |-> FALSE, error |-> ErrorInvalid(name)]
  ELSE [valid |-> TRUE, error |-> <<>>]

\* validateProjectName: [valid, error]; error <<>> stands for null
validateProjectName(name) ==
  IF name = <<>> \/ Trim(name) = <<>> THEN [valid |-> FALSE, error |-> ErrorEmpty]
  ELSE IF ~PROJECT_NAME_PATTERN(name) THEN [valid |-> FALSE, error |-> ErrorInvalid(name)]
  ELSE [valid |-> TRUE, error |-> <<>>]

(***************************************************************************)
(* Files.  A path either has no file or holds a text.                      *)
(***************************************************************************)
NoFile == [exists |-> FALSE, text |-> <<>>]
FileOf(text) == [exists |-> TRUE, text |-> text]

KeyName     == <<"n", "a", "m", "e">>
KeyScripts  == <<"s", "c", "r", "i", "p", "t", "s">>
KeyRename   == <<"r", "e", "n", "a", "m", "e">>
KeyProjects == <<"p", "r", "o", "j", "e", "c", "t", "s">>

IsNull(v) == v.t = "l" /\ v.s = LitNull

\* a getCurrentProjectName without the check of the "name" field
getCurrentProjectName_NoNameCheck(file) ==
  IF ~file.exists THEN [threw |-> TRUE, name |-> <<>>]
  ELSE With(Parse(file.text),
            LAMBDA p :
              IF ~p.ok \/ IsNull(p.v) THEN [threw |-> TRUE, name |-> <<>>]
              ELSE [threw |-> FALSE, name |-> Get(p.v, KeyName).s])

\* getCurrentProjectName: [threw, name]
getCurrentProjectName(file) ==
  IF ~file.exists THEN [threw |-> TRUE, name |-> <<>>]
  ELSE With(Parse(file.text),
            LAMBDA p :
              IF ~p.ok \/ IsNull(p.v) THEN [threw |-> TRUE, name |-> <<>>]
              ELSE IF ~Truthy(Get(p.v, KeyName)) THEN [threw |-> TRUE, name |-> <<>>]
              ELSE [threw |-> FALSE, name |-> Get(p.v, KeyName).s])

\* packageData after `packageData.name = newName` and the removal of
\* scripts.rename
RenamedPackageData(packageData, newName) ==
  With(IF packageData.t = "o" THEN Obj(SetProp(packageData.m, KeyName, Str(newName)))
       ELSE packageData,
       LAMBDA named :
         With(Get(named, KeyScripts),
              LAMBDA scripts :
                IF Truthy(scripts) /\ Truthy(Get(scripts, KeyRename))
                THEN With(Obj(DeleteProp(scripts.m, KeyRename)),
                          LAMBDA kept : Obj(SetProp(named.m, KeyScripts, kept)))
                ELSE named))

\* an updatePackageJson that writes an empty manifest when it cannot read one
updatePackageJson_WritesOnFailure(oldName, newName, file, canWrite) ==
  IF ~file.exists
  THEN [ret |-> FALSE, file |-> FileOf(Stringify(Obj(<<>>)) \o <<NL>>),
        out |-> <<"error:package.json">>]
  ELSE With(Parse(file.text),
            LAMBDA p :
              IF ~p.ok
              THEN [ret |-> FALSE, file |-> FileOf(Stringify(Obj(<<>>)) \o <<NL>>),
                    out |-> <<"error:package.json">>]
              ELSE IF IsNull(p.v) \/ ~canWrite
              THEN [ret |-> FALSE, file |-> file, out |-> <<"error:package.json">>]
              ELSE [ret  |-> TRUE,
                    file |-> FileOf(Stringify(RenamedPackageData(p.v, newName)) \o <<NL>>),
                    out  |-> <<>>])

\* updatePackageJson: [ret, file, out]; canWrite is whether writeFileSync
\* succeeds on this path
updatePackageJson(oldName, newName, file, canWrite) ==
  IF ~file.exists THEN [ret |-> FALSE, file |-> file, out |-> <<"error:package.json">>]
  ELSE With(Parse(file.text),
            LAMBDA p :
              IF ~p.ok \/ IsNull(p.v) \/ ~canWrite
              THEN [ret |-> FALSE, file |-> file, out |-> <<"error:package.json">>]
              ELSE [ret  |-> TRUE,
                    file |-> FileOf(Stringify(RenamedPackageData(p.v, newName)) \o <<NL>>),
                    out  |-> <<>>])

\* angularData after the project key oldName is renamed to newName
RenamedProjects(angularData, oldName, newName) ==
  With(Get(angularData, KeyProjects),
       LAMBDA projects :
         With(SetProp(projects.m, newName, Get(projects, oldName)),
              LAMBDA copied :
                With(Obj(DeleteProp(copied, oldName)),
                     LAMBDA renamed : Obj(SetProp(angularData.m, KeyProjects, renamed)))))

\* jsonString after jsonString.replace(buildTargetPattern, `"${newName}:`)
ReplaceBuildTargets(jsonString, oldName, newName) ==
  Replace(jsonString, <<Q>> \o oldName \o <<":">>, <<Q>> \o newName \o <<":">>)

\* an updateAngularJson that writes the file back when the project is not found
updateAngularJson_SkipRewrites(oldName, newName, file, canWrite) ==
  IF ~file.exists
  THEN [ret |-> FALSE, file |-> file, out |-> <<"warn:angular.json not found">>]
  ELSE With(Parse(file.text),
            LAMBDA p :
              IF ~p.ok \/ IsNull(p.v)
              THEN [ret |-> FALSE, file |-> file, out |-> <<"error:angular.json">>]
              ELSE IF ~Truthy(Get(p.v, KeyProjects))
              THEN [ret |-> FALSE, file |-> file, out |-> <<"warn:no projects section">>]
              ELSE [ret  |-> FALSE,
                    file |-> FileOf(Stringify(p.v) \o <<NL, NL>>),
                    out  |-> <<"warn:project not found">>])

\* updateAngularJson: [ret, file, out]
updateAngularJson(oldName, newName, file, canWrite) ==
  IF ~file.exists
  THEN [ret |-> FALSE, file |-> file, out |-> <<"warn:angular.json not found">>]
  ELSE With(Parse(file.text),
            LAMBDA p :
              IF ~p.ok \/ IsNull(p.v)
              THEN [ret |-> FALSE, file |-> file, out |-> <<"error:angular.json">>]
              ELSE IF ~Truthy(Get(p.v, KeyProjects))
              THEN [ret |-> FALSE, file |-> file, out |-> <<"warn:no projects section">>]
              ELSE IF ~Truthy(Get(Get(p.v, KeyProjects), oldName))
              THEN [ret |-> FALSE, file |-> file, out |-> <<"warn:project not found">>]
              ELSE With(Parse(ReplaceBuildTargets(Stringify(RenamedProjects(p.v, oldName, newName)),
                                                  oldName, newName)),
                        LAMBDA updatedData :
                          IF ~updatedData.ok \/ ~canWrite
                          THEN [ret |-> FALSE, file |-> file, out |-> <<"error:angular.json">>]
                          ELSE [ret  |-> TRUE,
                                file |-> FileOf(Stringify(updatedData.v) \o <<NL>>),
                                out  |-> <<>>]))

(***************************************************************************)
(* updateReadme                                                            *)
(***************************************************************************)
renameSectionStart ==
  <<"#", "#", SP, "R", "e", "n", "a", "m", "i", "n", "g", SP, "t", "h", "e", SP,
    "P", "r", "o", "j", "e", "c", "t">>
MarkerRenameProject ==
  <<"r", "e", "n", "a", "m", "e", "-", "p", "r", "o", "j", "e", "c", "t">>
MarkerNpmRunRename ==
  <<"n", "p", "m", SP, "r", "u", "n", SP, "r", "e", "n", "a", "m", "e">>

\* a character matched by \s
IsRegexSpace(c) == c \in {SP, NL, "\t", "\r"}

\* s.indexOf(p) + 1; Len(s) + 1 stands for -1
IndexOf(s, p) == FirstIndex(1, Len(s), LAMBDA k : StartsWithAt(s, k, p))

Includes(s, p) == IndexOf(s, p) <= Len(s)

LowerChar(c) ==
  IF \E u \in 1..Len(UpperLetters) : UpperLetters[u] = c
  THEN LowerOfUpper[CHOOSE u \in 1..Len(UpperLetters) : UpperLetters[u] = c]
  ELSE c

RECURSIVE toLowerCase(_)
toLowerCase(s) == IF s = <<>> THEN <<>> ELSE <<LowerChar(Head(s))>> \o toLowerCase(Tail(s))

\* s.split('\n') from position i
RECURSIVE SplitFrom(_, _)
SplitFrom(s, i) ==
  With(FirstIndex(i, Len(s), LAMBDA k : s[k] = NL),
       LAMBDA j :
         IF j > Len(s) THEN <<From(s, i)>>
         ELSE <<SubSeq(s, i, j - 1)>> \o SplitFrom(s, j + 1))

Split(s) == With(s, LAMBDA x : SplitFrom(x, 1))

\* lines.join('\n')
RECURSIVE Join(_)
Join(lines) ==
  IF lines = <<>> THEN <<>>
  ELSE IF Len(lines) = 1 THEN lines[1]
  ELSE lines[1] \o <<NL>> \o Join(Tail(lines))

\* the position of the first match of /\n##\s/ at or after position i
NextSectionAt(content, i) ==
  FirstIndex(i, Len(content),
             LAMBDA k : /\ k + 3 <= Len(content)
                        /\ content[k] = NL
                        /\ content[k + 1] = "#"
                        /\ content[k + 2] = "#"
                        /\ IsRegexSpace(content[k + 3]))

\* Step 1 of updateReadme: the content without the "Renaming the Project" section
RemoveRenameSection(text) ==
  With(text,
       LAMBDA content :
         With(IndexOf(content, renameSectionStart),
              LAMBDA startIndex :
                IF startIndex > Len(content) THEN content
                ELSE With(NextSectionAt(content, startIndex + Len(renameSectionStart)),
                          LAMBDA nextSection :
                            IF nextSection <= Len(content)
                            THEN SubSeq(content, 1, startIndex - 1) \o From(content, nextSection + 1)
                            ELSE SubSeq(content, 1, startIndex - 1))))

\* a filter that compares the line as written, without toLowerCase()
KeepLine_CaseSensitive(line) ==
  /\ ~Includes(line, MarkerRenameProject)
  /\ ~Includes(line, MarkerNpmRunRename)

\* Step 2 of updateReadme: the filter on one line
KeepLine(line) ==
  With(toLowerCase(line),
       LAMBDA lowerLine : /\ ~Includes(lowerLine, MarkerRenameProject)
                          /\ ~Includes(lowerLine, MarkerNpmRunRename))

RemoveMarkerLines(content) ==
  With(Split(content), LAMBDA lines : With(SelectSeq(lines, KeepLine), LAMBDA kept : Join(kept)))

\* an updateReadme without Step 3, the replacement of the name
updateReadme_NameNotReplaced(oldName, newName, file, canWrite) ==
  IF ~file.exists
  THEN [ret |-> FALSE, file |-> file, out |-> <<"warn:README.md not found">>]
  ELSE IF ~canWrite
  THEN [ret |-> FALSE, file |-> file, out |-> <<"error:README.md">>]
  ELSE [ret  |-> TRUE,
        file |-> FileOf(RemoveMarkerLines(RemoveRenameSection(file.text))),
        out  |-> <<>>]

\* updateReadme: [ret, file, out]
updateReadme(oldName, newName, file, canWrite) ==
  IF ~file.exists
  THEN [ret |-> FALSE, file |-> file, out |-> <<"warn:README.md not found">>]
  ELSE IF ~canWrite
  THEN [ret |-> FALSE, file |-> file, out |-> <<"error:README.md">>]
  ELSE [ret  |-> TRUE,
        file |-> FileOf(Replace(RemoveMarkerLines(RemoveRenameSection(file.text)),
                                escapeRegExp(oldName), newName)),
        out  |-> <<>>]

(***************************************************************************)
(* verifyRequiredFiles: [threw, availableFiles, out]                       *)
(***************************************************************************)
\* a verifyRequiredFiles that warns about the optional files before it throws
verifyRequiredFiles_WarnsFirst(files) ==
  [threw |-> ~files.packageJson.exists,
   availableFiles |-> [packageJson |-> files.packageJson.exists,
                       angularJson |-> files.angularJson.exists,
                       readme |-> files.readme.exists],
   out |-> (IF files.angularJson.exists THEN <<>> ELSE <<"warn:angular.json not found">>)
             \o (IF files.readme.exists THEN <<>> ELSE <<"warn:README.md not found">>)]

verifyRequiredFiles(files) ==
  IF ~files.packageJson.exists
  THEN [threw |-> TRUE,
        availableFiles |-> [packageJson |-> FALSE, angularJson |-> FALSE, readme |-> FALSE],
        out |-> <<>>]
  ELSE [threw |-> FALSE,
        availableFiles |-> [packageJson |-> TRUE,
                            angularJson |-> files.angularJson.exists,
                            readme |-> files.readme.exists],
        out |-> (IF files.angularJson.exists THEN <<>> ELSE <<"warn:angular.json not found">>)
                  \o (IF files.readme.exists THEN <<>> ELSE <<"warn:README.md not found">>)]

(***************************************************************************)
(* The readline singleton: `rl` is null until getReadlineInterface creates *)
(* the interface; close() leaves the object in place.                      *)
(***************************************************************************)
\* a getReadlineInterface that creates an interface on every call
getReadlineInterface_NoCache(r) == [r EXCEPT !.state = "open", !.created = @ + 1]

getReadlineInterface(r) ==
  IF r.state = "null" THEN [r EXCEPT !.state = "open", !.created = @ + 1] ELSE r

Close(r) == [r EXCEPT !.state = "closed", !.closed = @ + 1]

\* a main() that reports a failed history reset as success
SummaryExitCode_AlwaysZero(gitFailed) == IF gitFailed THEN 0 ELSE 0

\* the exit code main() chooses after the summary
SummaryExitCode(gitFailed) == IF gitFailed THEN 3 ELSE 0

(***************************************************************************)
(* Inputs                                                                  *)
(***************************************************************************)
\* how many candidates the operator may have rejected before an accepted one
MaxRejected == 2

IdA  == <<"a">>
IdB  == <<"b">>
IdAB == <<"a", "-", "b">>

\* lines the operator types at the prompt
Answers ==
  { <<>>, <<"A">>, <<"a", "-">>, IdA, IdB, IdAB, <<SP, "b", SP>> }

PkgWithName ==
  Obj(<<KV(KeyName, Str(IdA)),
        KV(KeyScripts, Obj(<<KV(<<"s">>, Str(<<"x">>)), KV(KeyRename, Str(<<"y">>))>>))>>)

PackageJsonFiles ==
  { NoFile,
    FileOf(<<"{", Q, "n">>),
    FileOf(Stringify(Obj(<<KV(<<"v">>, Lit(<<"1">>))>>))),
    FileOf(Stringify(Obj(<<KV(KeyName, Str(<<>>))>>))),
    FileOf(Stringify(PkgWithName)) }

AngularWithProjects ==
  Obj(<<KV(<<"v">>, Lit(<<"1">>)),
        KV(KeyProjects,
           Obj(<<KV(IdA, Obj(<<KV(<<"t">>, Str(<<"a", ":", "x">>)),
                               KV(<<"o">>, Str(<<"d", "/", "a">>))>>)),
                 KV(IdAB, Obj(<<KV(<<"t">>, Str(<<"a", "-", "b", ":", "x">>))>>))>>))>>)

AngularJsonFiles ==
  { NoFile,
    FileOf(<<"{", "}", "}">>),
    FileOf(Stringify(Obj(<<KV(<<"v">>, Lit(<<"1">>))>>))),
    FileOf(Stringify(Obj(<<KV(KeyProjects,
                              Obj(<<KV(IdB, Obj(<<KV(<<"t">>, Str(<<"b", ":", "x">>))>>))>>))>>))),
    FileOf(Stringify(AngularWithProjects)) }

\* string values of a build graph: references to "a" and to "a-b", a
\* reference to "b", a path and a bare name
RefAX   == <<"a", ":", "x">>
RefAXY  == <<"a", ":", "x", ":", "y">>
RefABX  == <<"a", "-", "b", ":", "x">>
RefBX   == <<"b", ":", "x">>
PathDA  == <<"d", "/", "a">>

ProjectConfigs ==
  {Obj(<<KV(<<"t">>, Str(l))>>) : l \in {RefAX, RefAXY, RefABX, RefBX, PathDA, IdA}}
    \cup {Obj(<<KV(<<"o">>, Obj(<<KV(<<"t">>, Str(l))>>))>>) : l \in {RefAX, RefABX}}

ProjectKeys == {IdA, IdB, IdAB}

ProjectMaps ==
  {<<KV(k, c)>> : k \in ProjectKeys, c \in ProjectConfigs}
    \cup {m \in {<<KV(k1, c1), KV(k2, c2)>> :
                    k1 \in ProjectKeys, k2 \in ProjectKeys,
                    c1 \in ProjectConfigs, c2 \in ProjectConfigs} : m[1].k # m[2].k}

\* a current name that the identifier grammar rejects, as package.json may
\* hold one, and a reference to it
IdDot   == <<"a", ".", "b">>
RefDotX == <<"a", ".", "b", ":", "x">>

\* build graphs whose project is keyed by that name
DottedDocuments ==
  {FileOf(Stringify(Obj(<<KV(KeyProjects,
                             Obj(<<KV(IdDot, Obj(<<KV(<<"t">>, Str(l))>>))>>))>>))) :
     l \in {RefDotX, RefABX, RefAX, PathDA}}

\* angular.json files for updateAngularJson called on its own
AngularJsonDocuments ==
  {FileOf(Stringify(Obj(<<KV(<<"d">>, Str(d)), KV(KeyProjects, Obj(m))>>))) :
     d \in {RefAX, IdA}, m \in ProjectMaps}
    \cup DottedDocuments
    \cup AngularJsonFiles

Line(s) == s \o <<NL>>

ReadmeText ==
  Line(<<"#", SP, "a">>)
    \o Line(renameSectionStart)
    \o Line(<<"r", "u", "n">>)
    \o Line(<<"#", "#", SP, "D">>)
    \o Line(<<"N", "p", "m", SP, "r", "u", "n", SP, "r", "e", "n", "a", "m", "e">>)
    \o Line(<<"c", "d", SP, "a">>)

ReadmeFiles == { NoFile, FileOf(ReadmeText) }

Paths == {"packageJson", "angularJson", "readme"}

(***************************************************************************)
(* State                                                                   *)
(***************************************************************************)
VARIABLES
  pc,             \* the statement main() is at
  availableFiles, \* what verifyRequiredFiles returned: [packageJson, angularJson, readme]
  shouldResetGit, \* process.argv has --git-reset
  fs,             \* the files at paths.packageJson, paths.angularJson, paths.readme
  fs0,            \* the files when the run started
  cannotWrite,    \* the paths on which writeFileSync fails
  gitDir,         \* the .git directory: [exists, history]
  staged,         \* git add has staged the working tree
  rl,             \* the readline singleton: [state, created, closed]
  prompts,        \* questions asked on the interface
  rejected,       \* candidates the validator has rejected
  candidate,      \* the string last handed to validateProjectName
  validation,     \* const validation: what validateProjectName returned for it
  currentName,    \* const currentName in main()
  newName,        \* const newName in main()
  result,         \* packageJsonUpdated, angularJsonUpdated, readmeUpdated,
                  \* fileUpdateFailed, gitSuccess, gitFailed
  calls,          \* the functions main() has invoked, in order
  gitSteps,       \* the steps reinitializeGit has attempted, in order
  out,            \* the messages printed, in order
  exitCode        \* the argument of process.exit, -1 while running

vars == <<pc, availableFiles, shouldResetGit, fs, fs0, cannotWrite, gitDir, staged, rl, prompts,
          rejected, candidate, validation, currentName, newName, result, calls, gitSteps, out, exitCode>>

NoValidation == [valid |-> FALSE, error |-> <<>>]

NoResult ==
  [packageJsonUpdated |-> FALSE, angularJsonUpdated |-> FALSE, readmeUpdated |-> FALSE,
   fileUpdateFailed |-> FALSE, gitSuccess |-> FALSE, gitFailed |-> FALSE]

\* availableFiles as verifyRequiredFiles starts it
NoneAvailable == [packageJson |-> FALSE, angularJson |-> FALSE, readme |-> FALSE]

InitCommon ==
  /\ fs0 = fs
  /\ availableFiles = NoneAvailable
  /\ staged = FALSE
  /\ rl = [state |-> "null", created |-> 0, closed |-> 0]
  /\ prompts = 0
  /\ rejected = 0
  /\ validation = NoValidation
  /\ result = NoResult
  /\ calls = <<>>
  /\ gitSteps = <<>>
  /\ out = <<>>
  /\ exitCode = -1

Init ==
  /\ pc = "verifyRequiredFiles"
  /\ shouldResetGit \in BOOLEAN
  /\ fs \in [packageJson : PackageJsonFiles, angularJson : AngularJsonFiles, readme : ReadmeFiles]
  /\ cannotWrite \in SUBSET Paths
  /\ gitDir \in {[exists |-> FALSE, history |-> "none"], [exists |-> TRUE, history |-> "old"]}
  /\ currentName = <<>>
  /\ newName = <<>>
  /\ candidate = <<>>
  /\ InitCommon

(***************************************************************************)
(* main()                                                                  *)
(***************************************************************************)
MainVerifyRequiredFiles ==
  /\ pc = "verifyRequiredFiles"
  /\ \E r \in {verifyRequiredFiles(fs)} :
       /\ calls' = Append(calls, "verifyRequiredFiles")
       /\ out' = out \o r.out
       /\ availableFiles' = IF r.threw THEN availableFiles ELSE r.availableFiles
       /\ pc' = IF r.threw THEN "catch" ELSE "getCurrentProjectName"
  /\ UNCHANGED <<candidate, validation, shouldResetGit, fs, fs0, cannotWrite, gitDir, staged, rl, prompts,
                 rejected, currentName, newName, result, gitSteps, exitCode>>

MainGetCurrentProjectName ==
  /\ pc = "getCurrentProjectName"
  /\ \E r \in {getCurrentProjectName(fs.packageJson)} :
       /\ calls' = Append(calls, "getCurrentProjectName")
       /\ currentName' = r.name
       /\ pc' = IF r.threw THEN "catch" ELSE "promptForNewName"
  /\ UNCHANGED <<availableFiles, candidate, validation, shouldResetGit, fs, fs0, cannotWrite, gitDir, staged, rl, prompts,
                 rejected, newName, result, gitSteps, out, exitCode>>

\* promptForNewName up to its loop: the banner
MainPromptForNewName ==
  /\ pc = "promptForNewName"
  /\ calls' = Append(calls, "promptForNewName")
  /\ out' = Append(out, "banner")
  /\ pc' = "prompt"
  /\ UNCHANGED <<availableFiles, candidate, validation, shouldResetGit, fs, fs0, cannotWrite, gitDir, staged, rl, prompts,
                 rejected, currentName, newName, result, gitSteps, exitCode>>

\* a loop that returns the answer without looking at the validation
PromptAccepted_NotValidated ==
  /\ pc = "prompt"
  /\ \E answer \in Answers :
       \E v \in {validateProjectName(Trim(answer))} :
         /\ candidate' = Trim(answer)
         /\ validation' = v
         /\ newName' = Trim(answer)
  /\ rl' = getReadlineInterface(rl)
  /\ prompts' = prompts + 1
  /\ out' = Append(out, "Updating project files...")
  /\ pc' = "updatePackageJson"
  /\ UNCHANGED <<availableFiles, shouldResetGit, fs, fs0, cannotWrite, gitDir, staged, rejected,
                 currentName, result, calls, gitSteps, exitCode>>

\* one turn of the loop of promptForNewName: the answer is accepted
PromptAccepted ==
  /\ pc = "prompt"
  /\ \E answer \in Answers :
       \E v \in {validateProjectName(Trim(answer))} :
         /\ v.valid
         /\ candidate' = Trim(answer)
         /\ validation' = v
         /\ newName' = Trim(answer)
  /\ rl' = getReadlineInterface(rl)
  /\ prompts' = prompts + 1
  /\ out' = Append(out, "Updating project files...")
  /\ pc' = "updatePackageJson"
  /\ UNCHANGED <<availableFiles, shouldResetGit, fs, fs0, cannotWrite, gitDir, staged, rejected,
                 currentName, result, calls, gitSteps, exitCode>>

\* a loop that throws on a rejected answer instead of asking again
PromptRejected_Throws ==
  /\ pc = "prompt"
  /\ rejected < MaxRejected
  /\ \E answer \in Answers :
       \E v \in {validateProjectName(Trim(answer))} :
         /\ ~v.valid
         /\ candidate' = Trim(answer)
         /\ validation' = v
  /\ rl' = getReadlineInterface(rl)
  /\ prompts' = prompts + 1
  /\ rejected' = rejected + 1
  /\ pc' = "catch"
  /\ UNCHANGED <<availableFiles, shouldResetGit, fs, fs0, cannotWrite, gitDir, staged,
                 currentName, newName, result, calls, gitSteps, out, exitCode>>

\* one turn of the loop of promptForNewName: the answer is rejected
PromptRejected ==
  /\ pc = "prompt"
  /\ rejected < MaxRejected
  /\ \E answer \in Answers :
       \E v \in {validateProjectName(Trim(answer))} :
         /\ ~v.valid
         /\ candidate' = Trim(answer)
         /\ validation' = v
         /\ out' = Append(out, IF v.error = ErrorEmpty
                               THEN "error:Project name cannot be empty"
                               ELSE "error:Invalid project name")
  /\ rl' = getReadlineInterface(rl)
  /\ prompts' = prompts + 1
  /\ rejected' = rejected + 1
  /\ UNCHANGED <<availableFiles, pc, shouldResetGit, fs, fs0, cannotWrite, gitDir, staged,
                 currentName, newName, result, calls, gitSteps, exitCode>>

\* a main() that does not record the failure of updatePackageJson
MainUpdatePackageJson_FailureIgnored ==
  /\ pc = "updatePackageJson"
  /\ \E r \in {updatePackageJson(currentName, newName, fs.packageJson,
                                 "packageJson" \notin cannotWrite)} :
       /\ fs' = [fs EXCEPT !.packageJson = r.file]
       /\ result' = [result EXCEPT !.packageJsonUpdated = r.ret]
       /\ out' = out \o r.out \o (IF r.ret THEN <<"ok:Updated package.json">> ELSE <<>>)
  /\ calls' = Append(calls, "updatePackageJson")
  /\ pc' = "updateAngularJson"
  /\ UNCHANGED <<availableFiles, candidate, validation, shouldResetGit, fs0, cannotWrite, gitDir, staged, rl, prompts,
                 rejected, currentName, newName, gitSteps, exitCode>>

\* a main() that goes from updatePackageJson straight to updateReadme
MainUpdatePackageJson_ThenReadme ==
  /\ pc = "updatePackageJson"
  /\ \E r \in {updatePackageJson(currentName, newName, fs.packageJson,
                                 "packageJson" \notin cannotWrite)} :
       /\ fs' = [fs EXCEPT !.packageJson = r.file]
       /\ result' = [result EXCEPT !.packageJsonUpdated = r.ret, !.fileUpdateFailed = ~r.ret]
       /\ out' = out \o r.out \o (IF r.ret THEN <<"ok:Updated package.json">> ELSE <<>>)
  /\ calls' = Append(calls, "updatePackageJson")
  /\ pc' = "updateReadme"
  /\ UNCHANGED <<availableFiles, candidate, validation, shouldResetGit, fs0, cannotWrite, gitDir, staged, rl,
                 prompts, rejected, currentName, newName, gitSteps, exitCode>>

MainUpdatePackageJson ==
  /\ pc = "updatePackageJson"
  /\ \E r \in {updatePackageJson(currentName, newName, fs.packageJson,
                                 "packageJson" \notin cannotWrite)} :
       /\ fs' = [fs EXCEPT !.packageJson = r.file]
       /\ result' = [result EXCEPT !.packageJsonUpdated = r.ret, !.fileUpdateFailed = ~r.ret]
       /\ out' = out \o r.out \o (IF r.ret THEN <<"ok:Updated package.json">> ELSE <<>>)
  /\ calls' = Append(calls, "updatePackageJson")
  /\ pc' = "updateAngularJson"
  /\ UNCHANGED <<availableFiles, candidate, validation, shouldResetGit, fs0, cannotWrite, gitDir, staged, rl, prompts,
                 rejected, currentName, newName, gitSteps, exitCode>>

\* a main() in which a failed updateAngularJson ends the run through catch
MainUpdateAngularJson_FailureAborts ==
  /\ pc = "updateAngularJson"
  /\ \E r \in {updateAngularJson(currentName, newName, fs.angularJson,
                                 "angularJson" \notin cannotWrite)} :
       /\ fs' = [fs EXCEPT !.angularJson = r.file]
       /\ result' = [result EXCEPT !.angularJsonUpdated = r.ret]
       /\ out' = out \o r.out \o (IF r.ret THEN <<"ok:Updated angular.json">> ELSE <<>>)
       /\ pc' = IF r.ret THEN "updateReadme" ELSE "catch"
  /\ calls' = Append(calls, "updateAngularJson")
  /\ UNCHANGED <<availableFiles, candidate, validation, shouldResetGit, fs0, cannotWrite, gitDir, staged, rl,
                 prompts, rejected, currentName, newName, gitSteps, exitCode>>

MainUpdateAngularJson ==
  /\ pc = "updateAngularJson"
  /\ \E r \in {updateAngularJson(currentName, newName, fs.angularJson,
                                 "angularJson" \notin cannotWrite)} :
       /\ fs' = [fs EXCEPT !.angularJson = r.file]
       /\ result' = [result EXCEPT !.angularJsonUpdated = r.ret]
       /\ out' = out \o r.out \o (IF r.ret THEN <<"ok:Updated angular.json">> ELSE <<>>)
  /\ calls' = Append(calls, "updateAngularJson")
  /\ pc' = "updateReadme"
  /\ UNCHANGED <<availableFiles, candidate, validation, shouldResetGit, fs0, cannotWrite, gitDir, staged, rl, prompts,
                 rejected, currentName, newName, gitSteps, exitCode>>

MainUpdateReadme ==
  /\ pc = "updateReadme"
  /\ \E r \in {updateReadme(currentName, newName, fs.readme, "readme" \notin cannotWrite)} :
       /\ fs' = [fs EXCEPT !.readme = r.file]
       /\ result' = [result EXCEPT !.readmeUpdated = r.ret]
       /\ out' = out \o r.out \o (IF r.ret THEN <<"ok:Updated README.md">> ELSE <<>>)
  /\ calls' = Append(calls, "updateReadme")
  /\ pc' = "fileUpdateFailed?"
  /\ UNCHANGED <<availableFiles, candidate, validation, shouldResetGit, fs0, cannotWrite, gitDir, staged, rl, prompts,
                 rejected, currentName, newName, gitSteps, exitCode>>

\* a main() that exits with the Git code on a critical failure
MainCriticalFailure_Exit3 ==
  /\ pc = "fileUpdateFailed?"
  /\ result.fileUpdateFailed
  /\ out' = Append(out, "error:Critical file update failed")
  /\ rl' = Close(getReadlineInterface(rl))
  /\ exitCode' = 3
  /\ pc' = "exited"
  /\ UNCHANGED <<availableFiles, candidate, validation, shouldResetGit, fs, fs0, cannotWrite, gitDir, staged, prompts,
                 rejected, currentName, newName, result, calls, gitSteps>>

\* if (fileUpdateFailed) { ...; process.exit(2) }
MainCriticalFailure ==
  /\ pc = "fileUpdateFailed?"
  /\ result.fileUpdateFailed
  /\ out' = Append(out, "error:Critical file update failed")
  /\ rl' = Close(getReadlineInterface(rl))
  /\ exitCode' = 2
  /\ pc' = "exited"
  /\ UNCHANGED <<availableFiles, candidate, validation, shouldResetGit, fs, fs0, cannotWrite, gitDir, staged, prompts,
                 rejected, currentName, newName, result, calls, gitSteps>>

\* a main() that calls reinitializeGit whether or not --git-reset was given
MainResetGit_FlagIgnored ==
  /\ pc = "fileUpdateFailed?"
  /\ ~result.fileUpdateFailed
  /\ out' = Append(out, "Reinitializing Git repository...")
  /\ calls' = Append(calls, "reinitializeGit")
  /\ pc' = "checkGitAvailability"
  /\ UNCHANGED <<availableFiles, candidate, validation, shouldResetGit, fs, fs0, cannotWrite, gitDir, staged, rl,
                 prompts, rejected, currentName, newName, result, gitSteps, exitCode>>

\* if (shouldResetGit) { ... reinitializeGit(newName) ... }
MainResetGit ==
  /\ pc = "fileUpdateFailed?"
  /\ ~result.fileUpdateFailed
  /\ shouldResetGit
  /\ out' = Append(out, "Reinitializing Git repository...")
  /\ calls' = Append(calls, "reinitializeGit")
  /\ pc' = "checkGitAvailability"
  /\ UNCHANGED <<availableFiles, candidate, validation, shouldResetGit, fs, fs0, cannotWrite, gitDir, staged, rl, prompts,
                 rejected, currentName, newName, result, gitSteps, exitCode>>

\* else { console.log('Git repository not reinitialized ...') }
MainSkipGit ==
  /\ pc = "fileUpdateFailed?"
  /\ ~result.fileUpdateFailed
  /\ ~shouldResetGit
  /\ out' = Append(out, "info:Git repository not reinitialized")
  /\ pc' = "summary"
  /\ UNCHANGED <<availableFiles, candidate, validation, shouldResetGit, fs, fs0, cannotWrite, gitDir, staged, rl, prompts,
                 rejected, currentName, newName, result, calls, gitSteps, exitCode>>

(***************************************************************************)
(* reinitializeGit, one action per step; each external call either         *)
(* succeeds or throws.  A step that fails returns false to main(), which   *)
(* sets gitFailed.                                                         *)
(***************************************************************************)
\* a main() that forgets `gitFailed = true`
GitStepFailed_NotFlagged(step, warnings) ==
  /\ gitSteps' = Append(gitSteps, step)
  /\ out' = out \o warnings
  /\ result' = [result EXCEPT !.gitSuccess = FALSE]
  /\ pc' = "summary"

GitStepFailed(step, warnings) ==
  /\ gitSteps' = Append(gitSteps, step)
  /\ out' = out \o warnings
  /\ result' = [result EXCEPT !.gitSuccess = FALSE, !.gitFailed = TRUE]
  /\ pc' = "summary"

\* a reinitializeGit that warns and goes on when git cannot be run
GitCheckAvailability_GoesOn ==
  /\ pc = "checkGitAvailability"
  /\ \E available \in BOOLEAN :
       /\ gitSteps' = Append(gitSteps, "git --version")
       /\ out' = IF available THEN out
                 ELSE out \o <<"warn:Git is not available",
                                "warn:You can manually initialize Git">>
       /\ pc' = "removeGitDir"
       /\ UNCHANGED result
  /\ UNCHANGED <<availableFiles, candidate, validation, shouldResetGit, fs, fs0, cannotWrite, gitDir, staged, rl,
                 prompts, rejected, currentName, newName, calls, exitCode>>

GitCheckAvailability ==
  /\ pc = "checkGitAvailability"
  /\ \E available \in BOOLEAN :
       IF available
       THEN /\ gitSteps' = Append(gitSteps, "git --version")
            /\ pc' = "removeGitDir"
            /\ UNCHANGED <<out, result>>
       ELSE GitStepFailed("git --version",
                          <<"warn:Git is not available", "warn:You can manually initialize Git">>)
  /\ UNCHANGED <<availableFiles, candidate, validation, shouldResetGit, fs, fs0, cannotWrite, gitDir, staged, rl, prompts,
                 rejected, currentName, newName, calls, exitCode>>

GitRemoveDir ==
  /\ pc = "removeGitDir"
  /\ IF ~gitDir.exists
     THEN /\ pc' = "git init"
          /\ UNCHANGED <<gitDir, gitSteps, out, result>>
     ELSE \E ok \in BOOLEAN :
            IF ok
            THEN /\ gitDir' = [exists |-> FALSE, history |-> "none"]
                 /\ gitSteps' = Append(gitSteps, "rm .git")
                 /\ out' = Append(out, "Removed existing .git directory")
                 /\ pc' = "git init"
                 /\ UNCHANGED result
            ELSE /\ GitStepFailed("rm .git", <<"warn:Could not remove .git directory">>)
                 /\ UNCHANGED gitDir
  /\ UNCHANGED <<availableFiles, candidate, validation, shouldResetGit, fs, fs0, cannotWrite, staged, rl, prompts,
                 rejected, currentName, newName, calls, exitCode>>

GitInit ==
  /\ pc = "git init"
  /\ \E ok \in BOOLEAN :
       IF ok
       THEN /\ gitDir' = [exists |-> TRUE, history |-> "empty"]
            /\ gitSteps' = Append(gitSteps, "git init")
            /\ out' = Append(out, "Initialized new Git repository")
            /\ pc' = "git add"
            /\ UNCHANGED result
       ELSE /\ GitStepFailed("git init", <<"warn:Could not initialize Git repository">>)
            /\ UNCHANGED gitDir
  /\ UNCHANGED <<availableFiles, candidate, validation, shouldResetGit, fs, fs0, cannotWrite, staged, rl, prompts,
                 rejected, currentName, newName, calls, exitCode>>

\* a reinitializeGit that warns and goes on to the commit when staging fails
GitAdd_GoesOn ==
  /\ pc = "git add"
  /\ \E ok \in BOOLEAN :
       /\ staged' = ok
       /\ gitSteps' = Append(gitSteps, "git add")
       /\ out' = Append(out, IF ok THEN "Staged all files" ELSE "warn:Could not stage files")
       /\ pc' = "git commit"
       /\ UNCHANGED result
  /\ UNCHANGED <<availableFiles, candidate, validation, shouldResetGit, fs, fs0, cannotWrite, gitDir, rl,
                 prompts, rejected, currentName, newName, calls, exitCode>>

GitAdd ==
  /\ pc = "git add"
  /\ \E ok \in BOOLEAN :
       IF ok
       THEN /\ staged' = TRUE
            /\ gitSteps' = Append(gitSteps, "git add")
            /\ out' = Append(out, "Staged all files")
            /\ pc' = "git commit"
            /\ UNCHANGED result
       ELSE /\ GitStepFailed("git add", <<"warn:Could not stage files">>)
            /\ UNCHANGED staged
  /\ UNCHANGED <<availableFiles, candidate, validation, shouldResetGit, fs, fs0, cannotWrite, gitDir, rl, prompts,
                 rejected, currentName, newName, calls, exitCode>>

\* git commit fails when nothing is staged; it may fail for other reasons too
GitCommit ==
  /\ pc = "git commit"
  /\ \E ok \in BOOLEAN :
       IF ok /\ staged /\ \E f \in Paths : fs[f].exists
       THEN /\ gitDir' = [gitDir EXCEPT !.history = "initial commit"]
            /\ gitSteps' = Append(gitSteps, "git commit")
            /\ out' = out \o <<"Created initial commit", "ok:Git repository reinitialized">>
            /\ result' = [result EXCEPT !.gitSuccess = TRUE]
            /\ pc' = "summary"
       ELSE /\ GitStepFailed("git commit", <<"warn:Could not create initial commit">>)
            /\ UNCHANGED gitDir
  /\ UNCHANGED <<availableFiles, candidate, validation, shouldResetGit, fs, fs0, cannotWrite, staged, rl, prompts,
                 rejected, currentName, newName, calls, exitCode>>

\* the summary, rl.close() and process.exit(3) or process.exit(0)
MainSummary ==
  /\ pc = "summary"
  /\ out' = Append(out, "RENAME COMPLETE")
  /\ rl' = Close(getReadlineInterface(rl))
  /\ exitCode' = SummaryExitCode(result.gitFailed)
  /\ pc' = "exited"
  /\ UNCHANGED <<availableFiles, candidate, validation, shouldResetGit, fs, fs0, cannotWrite, gitDir, staged, prompts,
                 rejected, currentName, newName, result, calls, gitSteps>>

\* a catch that reports the error and leaves without process.exit
MainCatch_NoExit ==
  /\ pc = "catch"
  /\ out' = Append(out, "error:Error")
  /\ rl' = Close(getReadlineInterface(rl))
  /\ pc' = "done"
  /\ UNCHANGED <<availableFiles, candidate, validation, shouldResetGit, fs, fs0, cannotWrite, gitDir, staged, prompts,
                 rejected, currentName, newName, result, calls, gitSteps, exitCode>>

\* catch (error) { ...; process.exit(1) }
MainCatch ==
  /\ pc = "catch"
  /\ out' = Append(out, "error:Error")
  /\ rl' = Close(getReadlineInterface(rl))
  /\ exitCode' = 1
  /\ pc' = "exited"
  /\ UNCHANGED <<availableFiles, candidate, validation, shouldResetGit, fs, fs0, cannotWrite, gitDir, staged, prompts,
                 rejected, currentName, newName, result, calls, gitSteps>>

(***************************************************************************)
(* updateAngularJson called on its own, as the tests call it               *)
(***************************************************************************)
InitUpdateAngularJson ==
  /\ pc = "call updateAngularJson"
  /\ shouldResetGit = FALSE
  /\ fs \in [packageJson : {NoFile}, angularJson : AngularJsonDocuments, readme : {NoFile}]
  /\ cannotWrite \in {{}, {"angularJson"}}
  /\ gitDir = [exists |-> FALSE, history |-> "none"]
  /\ currentName \in {IdA, IdAB, IdDot}
  /\ newName \in {IdA, IdB, IdAB}
  /\ candidate = <<>>
  /\ InitCommon

CallUpdateAngularJson ==
  /\ pc = "call updateAngularJson"
  /\ \E r \in {updateAngularJson(currentName, newName, fs.angularJson,
                                 "angularJson" \notin cannotWrite)} :
       /\ fs' = [fs EXCEPT !.angularJson = r.file]
       /\ result' = [result EXCEPT !.angularJsonUpdated = r.ret]
       /\ out' = out \o r.out
  /\ calls' = Append(calls, "updateAngularJson")
  /\ pc' = "returned"
  /\ UNCHANGED <<availableFiles, candidate, validation, shouldResetGit, fs0, cannotWrite, gitDir, staged, rl, prompts,
                 rejected, currentName, newName, gitSteps, exitCode>>

SpecUpdateAngularJson == InitUpdateAngularJson /\ [][CallUpdateAngularJson]_vars

Next ==
  \/ MainVerifyRequiredFiles
  \/ MainGetCurrentProjectName
  \/ MainPromptForNewName
  \/ PromptAccepted
  \/ PromptRejected
  \/ MainUpdatePackageJson
  \/ MainUpdateAngularJson
  \/ MainUpdateReadme
  \/ MainCriticalFailure
  \/ MainResetGit
  \/ MainSkipGit
  \/ GitCheckAvailability
  \/ GitRemoveDir
  \/ GitInit
  \/ GitAdd
  \/ GitCommit
  \/ MainSummary
  \/ MainCatch

Spec == Init /\ [][Next]_vars

(***************************************************************************)
(* Properties of main()                                                    *)
(***************************************************************************)
Called(f) == \E i \in 1..Len(calls) : calls[i] = f
Printed(m) == \E i \in 1..Len(out) : out[i] = m
Exited == pc = "exited"

\* The files a run leaves when each rewriter that reported success wrote its
\* result and nothing else touched the three paths.
RewrittenFiles ==
  [packageJson |-> IF result.packageJsonUpdated
                   THEN updatePackageJson(currentName, newName, fs0.packageJson, TRUE).file
                   ELSE fs0.packageJson,
   angularJson |-> IF result.angularJsonUpdated
                   THEN updateAngularJson(currentName, newName, fs0.angularJson, TRUE).file
                   ELSE fs0.angularJson,
   readme      |-> IF result.readmeUpdated
                   THEN updateReadme(currentName, newName, fs0.readme, TRUE).file
                   ELSE fs0.readme]

\* C1: once updatePackageJson has reported failure, updateAngularJson and
\* updateReadme are not invoked, and a run that ends with exit code 2 leaves
\* angular.json and README.md as they were.
C1_AbortsAfterManifestFailure ==
  /\ (Called("updatePackageJson") /\ ~result.packageJsonUpdated)
       => ~Called("updateAngularJson") /\ ~Called("updateReadme")
  /\ exitCode = 2 => fs.angularJson = fs0.angularJson /\ fs.readme = fs0.readme

\* C2 as stated: exit code 3 implies that all three rewrites succeeded, the
\* flag was set and reinitializeGit returned false.
C2_Exit3AllRewritesSucceeded ==
  exitCode = 3 =>
    /\ result.packageJsonUpdated /\ result.angularJsonUpdated /\ result.readmeUpdated
    /\ shouldResetGit /\ Called("reinitializeGit") /\ ~result.gitSuccess

\* C2 as amended: exit code 3 implies that the manifest rewrite succeeded,
\* the two optional rewrites were attempted (either may have skipped or
\* failed), the flag was set and reinitializeGit returned false.
C2_Exit3ManifestRewritten ==
  exitCode = 3 =>
    /\ result.packageJsonUpdated
    /\ Called("updateAngularJson") /\ Called("updateReadme")
    /\ shouldResetGit /\ Called("reinitializeGit") /\ gitSteps # <<>>
    /\ ~result.gitSuccess

C2_Witness ==
  /\ exitCode = 3
  /\ ~result.angularJsonUpdated
  /\ result.readmeUpdated

\* C3: with --git-reset, a successful manifest rewrite and a reinitializeGit
\* that returned false, the run exits with code 3 and the three files hold
\* what the rewriters wrote.
C3_GitFailureKeepsRewrites ==
  (/\ Exited
   /\ shouldResetGit
   /\ result.packageJsonUpdated
   /\ Called("reinitializeGit")
   /\ ~result.gitSuccess)
    => exitCode = 3 /\ fs = RewrittenFiles

C3_Witness ==
  /\ exitCode = 3
  /\ gitSteps[Len(gitSteps)] = "git commit"
  /\ fs.packageJson # fs0.packageJson
  /\ fs.angularJson # fs0.angularJson
  /\ fs.readme # fs0.readme

\* C4: a run ends with exit code 0 exactly when promptForNewName returned a
\* valid name, updatePackageJson succeeded, and reinitializeGit was not
\* requested or returned true.
C4_Exit0Iff ==
  Exited =>
    (exitCode = 0 <=>
       /\ Called("promptForNewName") /\ validateProjectName(newName).valid
       /\ result.packageJsonUpdated
       /\ (~shouldResetGit \/ result.gitSuccess))

C4_Witness ==
  /\ exitCode = 0
  /\ shouldResetGit
  /\ result.gitSuccess

\* C5: when updatePackageJson has returned false, reinitializeGit is never
\* invoked, no summary is printed, and the run can only end with exit code 2.
C5_ManifestFailureExits2 ==
  (Called("updatePackageJson") /\ ~result.packageJsonUpdated) =>
    /\ ~Called("reinitializeGit") /\ gitSteps = <<>>
    /\ ~Printed("RENAME COMPLETE")
    /\ pc \in {"updateAngularJson", "updateReadme", "fileUpdateFailed?", "exited"}
    /\ Exited => exitCode = 2

C5_Witness ==
  /\ exitCode = 2
  /\ shouldResetGit
  /\ validateProjectName(newName).valid

\* the manifest is absent, does not parse, or has no non-empty name
ManifestUnusable(file) ==
  \/ ~file.exists
  \/ ~Parse(file.text).ok
  \/ Get(Parse(file.text).v, KeyName).t # "s"
  \/ Get(Parse(file.text).v, KeyName).s = <<>>

AngularBefore == Parse(fs0.angularJson.text).v
AngularAfter  == Parse(fs.angularJson.text).v
ProjectsBefore == Get(AngularBefore, KeyProjects)
ProjectsAfter  == Get(AngularAfter, KeyProjects)

UpdateAngularJsonReturnedTrue ==
  /\ pc = "returned"
  /\ Called("updateAngularJson")
  /\ result.angularJsonUpdated

\* a reference is identifier:target or identifier:target:subtarget
ColonAt(s) == FirstIndex(1, Len(s), LAMBDA k : s[k] = ":")
IsReference(s) == ColonAt(s) > 1 /\ ColonAt(s) < Len(s)
IdentifierSegment(s) == SubSeq(s, 1, ColonAt(s) - 1)
IsReferenceTo(s, id) == IsReference(s) /\ IdentifierSegment(s) = id
IsProperPrefix(p, s) == Len(p) < Len(s) /\ SubSeq(s, 1, Len(p)) = p

\* a string with a reference to oldId turned into one to newId
RewrittenString(s, oldId, newId) ==
  IF IsReferenceTo(s, oldId) THEN newId \o From(s, Len(oldId) + 1) ELSE s

\* a value with every reference to oldId, at any depth, turned into one to newId
RECURSIVE WithReferencesRewritten(_, _, _)
WithReferencesRewritten(v, oldId, newId) ==
  CASE v.t = "s" -> Str(RewrittenString(v.s, oldId, newId))
    [] v.t = "o" -> Obj([i \in 1..Len(v.m) |->
                           KV(v.m[i].k, WithReferencesRewritten(v.m[i].v, oldId, newId))])
    [] OTHER     -> v

\* the string values of a document, each with the keys that lead to it
RECURSIVE StringValues(_, _)
StringValues(v, path) ==
  CASE v.t = "s" -> {<<path, v.s>>}
    [] v.t = "o" -> UNION {StringValues(v.m[i].v, Append(path, v.m[i].k)) : i \in 1..Len(v.m)}
    [] OTHER     -> {}

\* where a value is after the project key oldId became newId
RenamedPath(path, oldId, newId) ==
  IF Len(path) >= 2 /\ path[1] = KeyProjects /\ path[2] = oldId
  THEN <<KeyProjects, newId>> \o From(path, 3)
  ELSE path

\* C8: after a successful rewrite of a build graph with an entry keyed
\* oldName, exactly one entry is keyed newName, it holds the configuration
\* that was keyed oldName (with its references rewritten), and no entry is
\* keyed oldName when the two names differ.
C8_OneEntryKeyedNewName ==
  (UpdateAngularJsonReturnedTrue /\ HasKey(ProjectsBefore.m, currentName)) =>
    /\ Cardinality({i \in 1..Len(ProjectsAfter.m) : ProjectsAfter.m[i].k = newName}) = 1
    /\ Get(ProjectsAfter, newName)
         = WithReferencesRewritten(Get(ProjectsBefore, currentName), currentName, newName)
    /\ newName # currentName => ~HasKey(ProjectsAfter.m, currentName)

\* C9: after a successful rewrite, every string value that was a reference
\* to oldName is, at its place in the written document, the same reference
\* to newName.
C9_ReferencesRewritten ==
  UpdateAngularJsonReturnedTrue =>
    \A leaf \in StringValues(AngularBefore, <<>>) :
      IsReferenceTo(leaf[2], currentName) =>
        <<RenamedPath(leaf[1], currentName, newName),
          RewrittenString(leaf[2], currentName, newName)>> \in StringValues(AngularAfter, <<>>)

\* C10: after a successful rewrite, every entry whose key merely has oldName
\* as a prefix is still there with its configuration (references to oldName
\* apart), and every reference whose identifier merely has oldName as a
\* prefix is unchanged at its place.
C10_PrefixNamesUntouched ==
  UpdateAngularJsonReturnedTrue =>
    /\ \A i \in 1..Len(ProjectsBefore.m) :
         IsProperPrefix(currentName, ProjectsBefore.m[i].k) =>
           Get(ProjectsAfter, ProjectsBefore.m[i].k)
             = WithReferencesRewritten(ProjectsBefore.m[i].v, currentName, newName)
    /\ \A leaf \in StringValues(AngularBefore, <<>>) :
         (IsReference(leaf[2]) /\ IsProperPrefix(currentName, IdentifierSegment(leaf[2]))) =>
           <<RenamedPath(leaf[1], currentName, newName), leaf[2]>>
             \in StringValues(AngularAfter, <<>>)

(***************************************************************************)
(* updatePackageJson called on its own, as the tests call it               *)
(***************************************************************************)
\* values of scripts.rename: a command, the empty string, null, false, 0, {}
RenameValues ==
  {Str(<<"y">>), Str(<<>>), Lit(LitNull), Lit(LitFalse), Lit(<<"0">>), Obj(<<>>)}

\* the members a manifest has for "scripts": none, or one of these values
ScriptsMembers ==
  {<<>>, <<KV(KeyScripts, Obj(<<>>))>>, <<KV(KeyScripts, Str(<<"x">>))>>,
   <<KV(KeyScripts, Obj(<<KV(<<"s">>, Str(<<"x">>))>>))>>}
    \cup {<<KV(KeyScripts, Obj(<<KV(KeyRename, v)>>))>> : v \in RenameValues}
    \cup {<<KV(KeyScripts, Obj(<<KV(<<"s">>, Str(<<"x">>)), KV(KeyRename, v)>>))>> :
            v \in RenameValues}
    \cup {<<KV(KeyScripts, Obj(<<KV(KeyRename, v), KV(<<"s">>, Str(<<"x">>))>>))>> :
            v \in RenameValues}

NameMembers == {<<>>, <<KV(KeyName, Str(IdA))>>, <<KV(KeyName, Str(<<>>))>>}

\* package.json files for updatePackageJson called on its own: objects with
\* and without a name and a scripts map, and texts that parse to no object
PackageJsonDocuments ==
  {FileOf(Stringify(Obj(<<KV(<<"v">>, Lit(<<"1">>))>> \o n \o sc))) :
     n \in NameMembers, sc \in ScriptsMembers}
    \cup {FileOf(Stringify(Obj(sc \o n \o <<KV(<<"l">>, Str(<<"M">>))>>))) :
            n \in NameMembers, sc \in ScriptsMembers}
    \cup {FileOf(Stringify(Str(<<"x">>))), FileOf(<<"1">>), FileOf(LitNull)}
    \cup PackageJsonFiles

InitUpdatePackageJson ==
  /\ pc = "call updatePackageJson"
  /\ shouldResetGit = FALSE
  /\ fs \in [packageJson : PackageJsonDocuments, angularJson : {NoFile}, readme : {NoFile}]
  /\ cannotWrite \in {{}, {"packageJson"}}
  /\ gitDir = [exists |-> FALSE, history |-> "none"]
  /\ currentName = IdA
  /\ newName \in {IdB, IdAB}
  /\ candidate = <<>>
  /\ InitCommon

CallUpdatePackageJson ==
  /\ pc = "call updatePackageJson"
  /\ \E r \in {updatePackageJson(currentName, newName, fs.packageJson,
                                 "packageJson" \notin cannotWrite)} :
       /\ fs' = [fs EXCEPT !.packageJson = r.file]
       /\ result' = [result EXCEPT !.packageJsonUpdated = r.ret]
       /\ out' = out \o r.out
  /\ calls' = Append(calls, "updatePackageJson")
  /\ pc' = "returned"
  /\ UNCHANGED <<availableFiles, candidate, validation, shouldResetGit, fs0, cannotWrite, gitDir, staged, rl, prompts,
                 rejected, currentName, newName, gitSteps, exitCode>>

SpecUpdatePackageJson == InitUpdatePackageJson /\ [][CallUpdatePackageJson]_vars

PackageBefore == Parse(fs0.packageJson.text).v
PackageAfter  == Parse(fs.packageJson.text).v

UpdatePackageJsonReturnedTrue ==
  /\ pc = "returned"
  /\ Called("updatePackageJson")
  /\ result.packageJsonUpdated

WithoutKey(v, k) == IF v.t = "o" THEN Obj(DeleteProp(v.m, k)) ELSE v

\* a manifest without its name and without the rename entry of its scripts
OtherFields(v) ==
  IF v.t # "o" THEN v
  ELSE With(DeleteProp(v.m, KeyName),
            LAMBDA m : Obj([i \in 1..Len(m) |->
                              IF m[i].k = KeyScripts
                              THEN KV(KeyScripts, WithoutKey(m[i].v, KeyRename))
                              ELSE m[i]]))

\* C11: after updatePackageJson returned true on a manifest that parses to an
\* object, the name is newName, a scripts map that had a rename entry (of any
\* value, the empty string included) has none, and every other field and
\* every other scripts entry is as before.
C11_ManifestRewritten ==
  (UpdatePackageJsonReturnedTrue /\ PackageBefore.t = "o") =>
    /\ Get(PackageAfter, KeyName) = Str(newName)
    /\ HasKey(Get(PackageBefore, KeyScripts).m, KeyRename)
         => ~HasKey(Get(PackageAfter, KeyScripts).m, KeyRename)
    /\ OtherFields(PackageAfter) = OtherFields(PackageBefore)

(***************************************************************************)
(* updateReadme called on its own, as the tests call it                    *)
(***************************************************************************)
IdRename == <<"r", "e", "n", "a", "m", "e">>

\* lines of a README, by the place they take in the document
TitleLines ==
  { <<>>, <<"#", SP, "a">>, <<"#">> \o renameSectionStart,
    <<"N", "p", "m", SP, "r", "u", "n", SP, "r", "e", "n", "a", "m", "e">> }
HeadingLines == { <<>>, renameSectionStart }
SectionLines ==
  { <<>>, <<"r", "u", "n">>, <<"#", "#", "#", SP, "s">>,
    <<"R", "e", "n", "a", "m", "e", "-", "P", "r", "o", "j", "e", "c", "t", ".", "j", "s">> }
NextHeadingLines == { <<>>, <<"#", "#", SP, "D">> }
LaterLines ==
  { <<>>, <<"c", "d", SP, "a">>, <<"a", "-", "a", "-", "b">>,
    <<"n", "p", "m", SP, "r", "u", "n", SP, "a">>,
    <<"u", "s", "e", SP>> \o MarkerRenameProject }

\* the lines that are present, in order
Present(lines) == SelectSeq(lines, LAMBDA l : l # <<>>)

\* README.md files for updateReadme called on its own
ReadmeDocuments ==
  {FileOf(Join(Present(<<t, h, b, n, l>>)) \o e) :
     t \in TitleLines, h \in HeadingLines, b \in SectionLines,
     n \in NextHeadingLines, l \in LaterLines, e \in {<<>>, <<NL>>}}
    \cup ReadmeFiles

InitUpdateReadme ==
  /\ pc = "call updateReadme"
  /\ shouldResetGit = FALSE
  /\ fs \in [packageJson : {NoFile}, angularJson : {NoFile}, readme : ReadmeDocuments]
  /\ cannotWrite \in {{}, {"readme"}}
  /\ gitDir = [exists |-> FALSE, history |-> "none"]
  /\ currentName \in {IdA, IdAB}
  /\ newName \in {IdA, IdB, IdAB, IdRename}
  /\ candidate = <<>>
  /\ InitCommon

CallUpdateReadme ==
  /\ pc = "call updateReadme"
  /\ \E r \in {updateReadme(currentName, newName, fs.readme, "readme" \notin cannotWrite)} :
       /\ fs' = [fs EXCEPT !.readme = r.file]
       /\ result' = [result EXCEPT !.readmeUpdated = r.ret]
       /\ out' = out \o r.out
  /\ calls' = Append(calls, "updateReadme")
  /\ pc' = "returned"
  /\ UNCHANGED <<availableFiles, candidate, validation, shouldResetGit, fs0, cannotWrite, gitDir, staged, rl, prompts,
                 rejected, currentName, newName, gitSteps, exitCode>>

SpecUpdateReadme == InitUpdateReadme /\ [][CallUpdateReadme]_vars

ReadmeBefore == fs0.readme.text
ReadmeAfter  == fs.readme.text

UpdateReadmeReturnedTrue ==
  /\ pc = "returned"
  /\ Called("updateReadme")
  /\ result.readmeUpdated

\* position i of text t is the first character of a line
IsLineStart(t, i) == i = 1 \/ t[i - 1] = NL

\* the line that starts at position i of t is the heading "## Renaming the Project"
IsRenameHeadingAt(t, i) ==
  /\ IsLineStart(t, i)
  /\ StartsWithAt(t, i, renameSectionStart)
  /\ (i + Len(renameSectionStart) > Len(t) \/ t[i + Len(renameSectionStart)] = NL)

\* the line that starts at position i of t is a heading of the level of "##"
IsTopLevelHeadingAt(t, i) ==
  /\ IsLineStart(t, i)
  /\ StartsWithAt(t, i, <<"#", "#">>)
  /\ (i + 2 > Len(t) \/ IsRegexSpace(t[i + 2]))

HasRenameHeading(t) == \E i \in 1..Len(t) : IsRenameHeadingAt(t, i)

\* t without its section "Renaming the Project": the text before the heading
\* line, then the text from the next top-level heading line on
WithoutRenameSection(t) ==
  With(FirstIndex(1, Len(t), LAMBDA i : IsRenameHeadingAt(t, i)),
       LAMBDA h :
         With(FirstIndex(h + 1, Len(t), LAMBDA i : IsTopLevelHeadingAt(t, i)),
              LAMBDA n : SubSeq(t, 1, h - 1) \o From(t, n)))

\* C12: after updateReadme returned true on a document that has the heading
\* line "## Renaming the Project", the written document is the original
\* without the section from that line up to the next top-level heading line
\* (or the end), with the following heading and all later content kept, then
\* passed through the marker-line filter and the name replacement.
C12_SectionRemoved ==
  (UpdateReadmeReturnedTrue /\ HasRenameHeading(ReadmeBefore)) =>
    ReadmeAfter = Replace(RemoveMarkerLines(WithoutRenameSection(ReadmeBefore)),
                          escapeRegExp(currentName), newName)

\* position i of text t lies inside an occurrence of p
CoveredBy(t, i, p) ==
  \E k \in 1..Len(t) : StartsWithAt(t, k, p) /\ k <= i /\ i < k + Len(p)

\* every occurrence of p in t shares a position with an occurrence of q in u,
\* where u has the length of t
OnlyAcross(t, p, u, q) ==
  \A j \in 1..Len(t) :
    StartsWithAt(t, j, p) => \E i \in j..(j + Len(p) - 1) : CoveredBy(u, i, q)

Markers == {MarkerRenameProject, MarkerNpmRunRename}

\* C13 as stated: after updateReadme returned true, no line of the written
\* document contains "rename-project" or "npm run rename" in any letter case.
C13_NoMarkerLines ==
  UpdateReadmeReturnedTrue =>
    \A mk \in Markers : ~Includes(toLowerCase(ReadmeAfter), mk)

\* C13: after updateReadme returned true, a marker ("rename-project" or
\* "npm run rename", in any letter case) occurs in the written document only
\* where an inserted newName spells it or part of it; when newName is not
\* part of a marker occurrence, no line contains a marker.
C13_MarkersOnlyFromNewName ==
  UpdateReadmeReturnedTrue =>
    \A mk \in Markers :
      OnlyAcross(toLowerCase(ReadmeAfter), mk, ReadmeAfter, newName)

C13_Witness ==
  /\ UpdateReadmeReturnedTrue
  /\ Includes(toLowerCase(ReadmeBefore), MarkerNpmRunRename)
  /\ ~Includes(ReadmeBefore, MarkerNpmRunRename)
  /\ ~HasRenameHeading(ReadmeBefore)
  /\ ~Includes(toLowerCase(ReadmeAfter), MarkerNpmRunRename)
  /\ ReadmeAfter # <<>>

\* C14 as stated: after updateReadme returned true, the written document
\* contains no occurrence of oldName.
C14_NoOldNameRemains ==
  UpdateReadmeReturnedTrue => ~Includes(ReadmeAfter, currentName)

\* C14: after updateReadme returned true, oldName occurs in the written
\* document only where an inserted newName spells it or part of it (newName
\* contains oldName, or newName and its neighbours together read oldName);
\* no occurrence of oldName is left over from the original text.
C14_OldNameOnlyFromNewName ==
  UpdateReadmeReturnedTrue =>
    OnlyAcross(ReadmeAfter, currentName, ReadmeAfter, newName)

C14_Witness ==
  /\ UpdateReadmeReturnedTrue
  /\ currentName = IdA
  /\ newName = IdAB
  /\ Includes(ReadmeBefore, <<"c", "d", SP, "a">>)
  /\ Includes(ReadmeAfter, <<"c", "d", SP, "a", "-", "b">>)

(***************************************************************************)
(* validateProjectName called on its own, as the tests call it             *)
(***************************************************************************)
\* the longest name handed to the validator
MaxNameLen == 4

\* a lowercase letter, a digit, the hyphen, an uppercase letter, the
\* underscore, a space and a tab
NameAlphabet == {"a", "1", "-", "A", "_", SP, "\t"}

Names == UNION {[1..n -> NameAlphabet] : n \in 0..MaxNameLen}

InitValidateProjectName ==
  /\ pc = "call validateProjectName"
  /\ shouldResetGit = FALSE
  /\ fs = [packageJson |-> NoFile, angularJson |-> NoFile, readme |-> NoFile]
  /\ cannotWrite = {}
  /\ gitDir = [exists |-> FALSE, history |-> "none"]
  /\ currentName = <<>>
  /\ newName = <<>>
  /\ candidate \in Names
  /\ InitCommon

CallValidateProjectName ==
  /\ pc = "call validateProjectName"
  /\ validation' = validateProjectName(candidate)
  /\ calls' = Append(calls, "validateProjectName")
  /\ pc' = "returned"
  /\ UNCHANGED <<availableFiles, candidate, shouldResetGit, fs, fs0, cannotWrite, gitDir, staged, rl,
                 prompts, rejected, currentName, newName, result, gitSteps, out, exitCode>>

SpecValidateProjectName == InitValidateProjectName /\ [][CallValidateProjectName]_vars

ValidateProjectNameReturned == pc = "returned" /\ Called("validateProjectName")

\* the identifier grammar, character by character: lowercase letters, digits
\* and hyphens only, a lowercase letter first, no hyphen last, no two hyphens
\* in a row
IsKebabCase(s) ==
  /\ s # <<>>
  /\ \A i \in 1..Len(s) : s[i] \in LowerLetters \cup Digits \cup {"-"}
  /\ s[1] \in LowerLetters
  /\ s[Len(s)] # "-"
  /\ \A i \in 1..(Len(s) - 1) : ~(s[i] = "-" /\ s[i + 1] = "-")

IsBlank(s) == \A i \in 1..Len(s) : s[i] \in {SP, "\t", NL, "\r"}

\* C15: validateProjectName accepts a string exactly when it matches the
\* identifier grammar; it rejects an empty or whitespace-only string with the
\* "cannot be empty" message and every other non-matching string with the
\* "Invalid project name" message, which quotes the rejected string.
C15_ValidatorGrammar ==
  ValidateProjectNameReturned =>
    /\ validation.valid <=> IsKebabCase(candidate)
    /\ validation.valid => validation.error = <<>>
    /\ IsBlank(candidate) => validation.error = <<"Project name cannot be empty">>
    /\ (~IsBlank(candidate) /\ ~IsKebabCase(candidate)) =>
         /\ validation.error # <<"Project name cannot be empty">>
         /\ Len(validation.error) >= Len(candidate) + 3
         /\ validation.error[1] = "Invalid project name: "
         /\ SubSeq(validation.error, 2, Len(candidate) + 3) = <<Q>> \o candidate \o <<Q>>

C15_Witness ==
  /\ ValidateProjectNameReturned
  /\ candidate = <<"a", "-", "-", "1">>
  /\ ~validation.valid
  /\ validation.error # <<"Project name cannot be empty">>

(***************************************************************************)
(* Properties of the prompt loop, of reinitializeGit and of the readline   *)
(* interface in main()                                                     *)
(***************************************************************************)
\* promptForNewName has returned to main()
PromptReturned ==
  /\ Called("promptForNewName")
  /\ pc \notin {"prompt", "catch"}
  /\ exitCode # 1

\* C16: while promptForNewName loops, every candidate so far was rejected and
\* nothing is returned; when it returns after k rejections it has asked
\* k + 1 times and returns the candidate just entered, which the validator
\* accepts; so the newName handed to the rewriters and to reinitializeGit
\* matches the identifier grammar.
C16_PromptLoop ==
  /\ pc = "prompt" =>
       /\ prompts = rejected
       /\ newName = <<>>
       /\ prompts > 0 => validation = validateProjectName(candidate) /\ ~validation.valid
  /\ PromptReturned =>
       /\ prompts = rejected + 1
       /\ newName = candidate
       /\ validation = validateProjectName(candidate) /\ validation.valid
  /\ \A f \in {"updatePackageJson", "updateAngularJson", "updateReadme", "reinitializeGit"} :
       Called(f) => IsKebabCase(newName)

C16_Witness ==
  /\ PromptReturned
  /\ rejected = MaxRejected
  /\ prompts = MaxRejected + 1
  /\ Called("reinitializeGit")
  /\ newName = IdAB

\* what main() reports in the summary about the three rewrites
RewriteFlags ==
  <<result.packageJsonUpdated, result.angularJsonUpdated, result.readmeUpdated,
    result.fileUpdateFailed>>

\* C17: reinitializeGit is entered only with --git-reset and only after
\* updatePackageJson, updateAngularJson and updateReadme have been called;
\* from then on no step changes a file or a rewrite flag; without the flag no
\* step of it ever runs.
C17_GitResetAfterRewrites ==
  [][/\ (~Called("reinitializeGit") /\ Called("reinitializeGit")') =>
          /\ shouldResetGit
          /\ Called("updatePackageJson")
          /\ Called("updateAngularJson")
          /\ Called("updateReadme")
     /\ Called("reinitializeGit") => (fs' = fs /\ RewriteFlags' = RewriteFlags)
     /\ ~shouldResetGit => (gitSteps' = <<>> /\ gitDir' = gitDir /\ staged' = staged)]_vars

C17_Witness ==
  /\ Exited
  /\ Called("reinitializeGit")
  /\ gitSteps = <<"git --version", "rm .git", "git init">>
  /\ result.gitFailed
  /\ result.angularJsonUpdated
  /\ result.readmeUpdated
  /\ fs = RewrittenFiles

\* the steps of reinitializeGit in the order of the code, and the warning
\* each prints when it fails
GitOrder == <<"git --version", "rm .git", "git init", "git add", "git commit">>
GitWarning ==
  <<"warn:Git is not available", "warn:Could not remove .git directory",
    "warn:Could not initialize Git repository", "warn:Could not stage files",
    "warn:Could not create initial commit">>
StepIndex(step) == CHOOSE i \in 1..Len(GitOrder) : GitOrder[i] = step

LastGitStep == gitSteps[Len(gitSteps)]

\* C18: the steps of reinitializeGit are attempted in the order remove .git,
\* git init, git add, git commit, none twice and none skipped (the removal
\* only when there is no .git); a step that fails is the last one attempted
\* and makes reinitializeGit return false; it returns true only after init,
\* add and commit succeeded.
C18_GitStepsInOrder ==
  /\ \A i \in 1..(Len(gitSteps) - 1) : StepIndex(gitSteps[i]) < StepIndex(gitSteps[i + 1])
  /\ \A i \in 1..Len(gitSteps) :
       \A j \in 1..(StepIndex(gitSteps[i]) - 1) :
         GitOrder[j] # "rm .git" => GitOrder[j] \in Range(gitSteps)
  /\ \A k \in 1..Len(GitOrder) :
       Printed(GitWarning[k]) =>
         /\ LastGitStep = GitOrder[k]
         /\ result.gitFailed /\ ~result.gitSuccess
         /\ pc \in {"summary", "exited"}
  /\ result.gitFailed =>
       /\ \E k \in 1..Len(GitOrder) : Printed(GitWarning[k])
       /\ pc \in {"summary", "exited"}
  /\ result.gitSuccess =>
       /\ ~result.gitFailed
       /\ \A k \in 1..Len(GitOrder) : ~Printed(GitWarning[k])
       /\ {"git init", "git add", "git commit"} \subseteq Range(gitSteps)
       /\ gitDir = [exists |-> TRUE, history |-> "initial commit"]
       /\ staged

C18_Witness ==
  /\ Exited
  /\ gitSteps = <<"git --version", "rm .git", "git init", "git add">>
  /\ Printed("warn:Could not stage files")
  /\ gitDir = [exists |-> TRUE, history |-> "empty"]
  /\ exitCode = 3

\* C19: when `git --version` cannot be run, reinitializeGit returns false at
\* once: that step leaves .git and the staging area as they are, and nothing
\* is removed, initialized, staged or committed afterwards.
C19_GitUnavailableStops ==
  [][/\ (~Printed("warn:Git is not available") /\ Printed("warn:Git is not available")') =>
          /\ gitDir' = gitDir /\ staged' = staged
          /\ gitSteps' = <<"git --version">>
          /\ result'.gitFailed /\ ~result'.gitSuccess
          /\ pc' = "summary"
     /\ Printed("warn:Git is not available") =>
          gitDir' = gitDir /\ staged' = staged /\ gitSteps' = gitSteps]_vars

C19_Witness ==
  /\ Exited
  /\ Printed("warn:Git is not available")
  /\ gitDir = [exists |-> TRUE, history |-> "old"]
  /\ gitSteps = <<"git --version">>
  /\ exitCode = 3

\* C20: in every run of main() the readline interface is created at most
\* once, every prompt is asked on that one interface while it is open, it is
\* not closed before the exit, and at each exit (code 0, 1, 2 or 3) it has
\* been closed exactly once.
C20_ReadlineOnce ==
  /\ rl.created <= 1
  /\ prompts > 0 => rl.created = 1
  /\ (prompts > 0 /\ ~Exited) => rl.state = "open"
  /\ ~Exited => rl.closed = 0
  /\ Exited =>
       /\ exitCode \in {0, 1, 2, 3}
       /\ rl = [state |-> "closed", created |-> 1, closed |-> 1]

C20_Witness ==
  /\ Exited
  /\ exitCode = 0
  /\ prompts = MaxRejected + 1
  /\ rl = [state |-> "closed", created |-> 1, closed |-> 1]

(***************************************************************************)
(* Properties of the stages of main()                                      *)
(***************************************************************************)
\* how many times main() has invoked f
Count(f) == Cardinality({i \in 1..Len(calls) : calls[i] = f})

\* C21: whatever updateAngularJson returned, updateReadme is called exactly
\* once after it, and whatever the two returned, the run goes on to the test
\* of fileUpdateFailed: its exit code depends on updatePackageJson and on
\* reinitializeGit alone, and with --git-reset and a rewritten manifest
\* reinitializeGit is called.
C21_OptionalRewritesIndependent ==
  /\ Count("updateReadme") <= 1
  /\ Called("updateReadme") => Called("updateAngularJson")
  /\ (Called("updateAngularJson") /\ pc # "updateReadme") => Count("updateReadme") = 1
  /\ (Called("updateReadme") /\ ~Exited) =>
       pc \in {"fileUpdateFailed?", "checkGitAvailability", "removeGitDir", "git init",
               "git add", "git commit", "summary"}
  /\ (Exited /\ Called("updateAngularJson")) =>
       /\ exitCode = (IF ~result.packageJsonUpdated THEN 2
                      ELSE IF result.gitFailed THEN 3 ELSE 0)
       /\ (result.packageJsonUpdated /\ shouldResetGit) => Called("reinitializeGit")
       /\ Printed("RENAME COMPLETE") <=> result.packageJsonUpdated

C21_Witness ==
  /\ Exited
  /\ exitCode = 0
  /\ Printed("error:angular.json")
  /\ Printed("error:README.md")
  /\ Called("reinitializeGit")
  /\ result.gitSuccess

\* how many times m has been printed
CountPrinted(m) == Cardinality({i \in 1..Len(out) : out[i] = m})

\* updateAngularJson has been called and took one of its three skips: the
\* warning of a missing file is printed a second time (verifyRequiredFiles
\* printed it first), the other two warnings are its own
AngularJsonSkipped ==
  /\ Called("updateAngularJson")
  /\ \/ CountPrinted("warn:angular.json not found") = 2
     \/ Printed("warn:no projects section")
     \/ Printed("warn:project not found")

ReadmeSkipped ==
  /\ Called("updateReadme")
  /\ CountPrinted("warn:README.md not found") = 2

StageOrder ==
  <<"verifyRequiredFiles", "getCurrentProjectName", "promptForNewName",
    "updatePackageJson", "updateAngularJson", "updateReadme", "reinitializeGit">>

\* C23: the functions main() has called are always the first ones of the
\* fixed order, each once; the operator is prompted only once
\* promptForNewName is called, the rewriters run only with the name it
\* returned, the steps of reinitializeGit run only after the three rewriters,
\* and the summary is printed only after all of them, at the exit.
C23_StagesInOrder ==
  /\ Len(calls) <= Len(StageOrder)
  /\ calls = SubSeq(StageOrder, 1, Len(calls))
  /\ prompts > 0 => Len(calls) >= 3
  /\ Len(calls) >= 4 => (validation.valid /\ newName = candidate /\ prompts = rejected + 1)
  /\ gitSteps # <<>> => calls = StageOrder
  /\ Printed("RENAME COMPLETE") =>
       /\ Exited
       /\ Len(calls) >= 6
       /\ shouldResetGit => (calls = StageOrder /\ (result.gitSuccess \/ result.gitFailed))
  /\ Exited => exitCode \in {0, 1, 2, 3}
  /\ ~Exited => exitCode = -1

C23_Witness ==
  /\ Exited
  /\ calls = StageOrder
  /\ gitSteps = GitOrder
  /\ rejected = 1
  /\ Printed("RENAME COMPLETE")

(***************************************************************************)
(* What updateAngularJson leaves alone                                     *)
(***************************************************************************)
\* C24: after a successful rewrite, every entry whose key is not oldName is
\* still under its key with its configuration (references to oldName
\* apart), and every string value that is not a reference to oldName is
\* unchanged at its place, whatever accepted newName was given.
C24_OtherEntriesKept ==
  UpdateAngularJsonReturnedTrue =>
    /\ \A i \in 1..Len(ProjectsBefore.m) :
         ProjectsBefore.m[i].k # currentName =>
           /\ HasKey(ProjectsAfter.m, ProjectsBefore.m[i].k)
           /\ Get(ProjectsAfter, ProjectsBefore.m[i].k)
                = WithReferencesRewritten(ProjectsBefore.m[i].v, currentName, newName)
    /\ \A leaf \in StringValues(AngularBefore, <<>>) :
         ~IsReferenceTo(leaf[2], currentName) =>
           <<RenamedPath(leaf[1], currentName, newName), leaf[2]>>
             \in StringValues(AngularAfter, <<>>)

(***************************************************************************)
(* updatePackageJson on a manifest it cannot read or parse                 *)
(***************************************************************************)
UpdatePackageJsonReturned == pc = "returned" /\ Called("updatePackageJson")

ManifestUnreadable == ~fs0.packageJson.exists \/ ~Parse(fs0.packageJson.text).ok

\* C25: when package.json is missing or its text is not JSON,
\* updatePackageJson returns false after reporting the error, and the file is
\* as it was: a missing one is still missing, a malformed one has its text.
C25_UnreadableManifestKept ==
  (UpdatePackageJsonReturned /\ ManifestUnreadable) =>
    /\ ~result.packageJsonUpdated
    /\ fs.packageJson = fs0.packageJson
    /\ out = <<"error:package.json">>

C25_Witness ==
  /\ UpdatePackageJsonReturned
  /\ fs0.packageJson.exists
  /\ ~Parse(fs0.packageJson.text).ok
  /\ cannotWrite = {}
  /\ ~result.packageJsonUpdated

(***************************************************************************)
(* Where updateReadme starts and ends the removal                          *)
(***************************************************************************)
\* t with the section removed when a line of t is the heading, t otherwise
SectionRemovedAtHeadingLine(t) ==
  IF HasRenameHeading(t) THEN WithoutRenameSection(t) ELSE t

\* C26: after updateReadme returned true, text was removed as a section only
\* from a line that is exactly "## Renaming the Project" up to just before
\* the next line starting with "##" and white space (sub-headings "###"
\* inside go with it); a document where that text only occurs inside a
\* longer line has nothing removed as a section. The rest is what the
\* marker-line filter and the name replacement make of it.
C26_RemovalStartsAtHeadingLine ==
  UpdateReadmeReturnedTrue =>
    ReadmeAfter = Replace(RemoveMarkerLines(SectionRemovedAtHeadingLine(ReadmeBefore)),
                          escapeRegExp(currentName), newName)

(***************************************************************************)
(* What updateReadme leaves alone                                          *)
(***************************************************************************)
\* the lines of t outside the section "Renaming the Project" that contain no
\* marker, in their order, blank lines included
LinesOutsideSection(t) == SelectSeq(Split(SectionRemovedAtHeadingLine(t)), KeepLine)

\* C27: after updateReadme returned true, the written document consists of
\* the lines of the original that lie outside the section and contain no
\* marker, in their order and with the blank ones, each with oldName replaced
\* by newName and nothing else changed; a document without the heading line
\* loses no section, and updateReadme succeeds on it when it can write.
C27_OtherLinesKept ==
  /\ UpdateReadmeReturnedTrue =>
       With(LinesOutsideSection(ReadmeBefore),
            LAMBDA kept :
              ReadmeAfter = Join([i \in 1..Len(kept) |->
                                    Replace(kept[i], escapeRegExp(currentName), newName)]))
  /\ (pc = "returned" /\ Called("updateReadme") /\ fs0.readme.exists
        /\ "readme" \notin cannotWrite /\ ~HasRenameHeading(ReadmeBefore)) =>
       result.readmeUpdated

(***************************************************************************)
(* verifyRequiredFiles                                                     *)
(***************************************************************************)
\* verifyRequiredFiles has just thrown or returned
VerifyRequiredFilesDone ==
  calls = <<"verifyRequiredFiles">> /\ pc \in {"catch", "getCurrentProjectName"}

\* C28: when package.json is missing, verifyRequiredFiles throws with no
\* warning printed and no flags returned; when it exists, the function
\* returns, each flag is whether its file exists, and there is one warning
\* for each of angular.json and README.md that is missing and none else.
C28_VerifyRequiredFiles ==
  VerifyRequiredFilesDone =>
    IF ~fs0.packageJson.exists
    THEN /\ pc = "catch"
         /\ out = <<>>
         /\ availableFiles = NoneAvailable
    ELSE /\ pc = "getCurrentProjectName"
         /\ availableFiles = [packageJson |-> TRUE,
                              angularJson |-> fs0.angularJson.exists,
                              readme      |-> fs0.readme.exists]
         /\ CountPrinted("warn:angular.json not found")
              = (IF fs0.angularJson.exists THEN 0 ELSE 1)
         /\ CountPrinted("warn:README.md not found") = (IF fs0.readme.exists THEN 0 ELSE 1)
         /\ Len(out) = CountPrinted("warn:angular.json not found")
                         + CountPrinted("warn:README.md not found")
         /\ fs = fs0

C28_Witness ==
  /\ VerifyRequiredFilesDone
  /\ pc = "getCurrentProjectName"
  /\ ~fs0.angularJson.exists
  /\ ~fs0.readme.exists
  /\ Len(out) = 2

(***************************************************************************)
(* Which strings updateAngularJson rewrites                                *)
(***************************************************************************)
\* C29: after a successful rewrite, whatever oldName getCurrentProjectName
\* returned, every string value of the written document is, at its place,
\* the string the original had there, or the rewritten form of a reference
\* whose identifier segment was oldName character for character.
C29_OnlyExactReferencesRewritten ==
  UpdateAngularJsonReturnedTrue =>
    \A after \in StringValues(AngularAfter, <<>>) :
      \E before \in StringValues(AngularBefore, <<>>) :
        /\ RenamedPath(before[1], currentName, newName) = after[1]
        /\ \/ after[2] = before[2]
           \/ /\ IsReferenceTo(before[2], currentName)
              /\ after[2] = RewrittenString(before[2], currentName, newName)

(***************************************************************************)
(* Termination of main()                                                   *)
(***************************************************************************)
\* main() under the assumptions that every statement it reaches completes
\* (file operations and git commands return) and that the operator, asked
\* again and again, at some point enters a name validateProjectName accepts
FairSpec == Spec /\ WF_vars(Next) /\ WF_vars(PromptAccepted)

\* C30: under these assumptions every run of main() reaches process.exit and
\* stays exited with a code among 0, 1, 2, 3; process.exit is reached once:
\* nothing runs after it, and the exit code is set by the step that exits
\* and by no other.
C30_ExitsOnce ==
  /\ <>[](Exited /\ exitCode \in {0, 1, 2, 3})
  /\ [][~Exited /\ exitCode = -1 /\ (exitCode' # -1 <=> Exited')]_vars

C30_Witness ==
  /\ Exited
  /\ rejected = MaxRejected
  /\ exitCode \in {0, 1, 2, 3}
  /\ prompts = rejected + 1

====
